---- MODULE Spec2Model ----
(***************************************************************************)
(* video-to-plan: the three-phase pipeline driver (video_to_plan.py) and   *)
(* the promotion utility (promote_plan.py) as state machines.              *)
(*                                                                         *)
(* Text is a sequence of one-character strings, so that fence stripping,   *)
(* whitespace trimming, joining of streamed fragments and JSON             *)
(* (de)serialisation are computed, not assumed.                            *)
(***************************************************************************)
EXTENDS Integers, Sequences, FiniteSets, TLC

\* ------------------------------------------------------------------ bounds
\* Longest input text of the fence-stripping specification.
MaxTextLen == 8
\* Most fragments one streamed response is cut into (empty fragments count).
MaxFrags == 2
\* Most file-state queries the remote service answers with PROCESSING again.
MaxPolls == 2

\* ------------------------------------------------------------------- text
NL == "\n"
\* The backtick character; a TLA+ string cannot hold one, so "~" stands for it.
BT == "~"
FENCE == <<BT, BT, BT>>
\* Python's str.strip() whitespace, as far as the modelled alphabet has it.
IsSpace(c) == c \in {" ", NL, "\t"}

RECURSIVE LStrip(_)
LStrip(t) ==
  IF t # <<>> /\ IsSpace(Head(t)) THEN LStrip(Tail(t)) ELSE t

RECURSIVE RStrip(_)
RStrip(t) ==
  IF t # <<>> /\ IsSpace(t[Len(t)]) THEN RStrip(SubSeq(t, 1, Len(t) - 1)) ELSE t

\* str.strip()
Strip(t) == RStrip(LStrip(t))

\* str.startswith / str.endswith
StartsWith(t, p) == Len(t) >= Len(p) /\ SubSeq(t, 1, Len(p)) = p
EndsWith(t, p) == Len(t) >= Len(p) /\ SubSeq(t, Len(t) - Len(p) + 1, Len(t)) = p

\* Start positions of the occurrences of sep in t.
Occurrences(t, sep) ==
  {i \in 1..(Len(t) - Len(sep) + 1) : SubSeq(t, i, i + Len(sep) - 1) = sep}

SetMin(S) == CHOOSE x \in S : \A y \in S : x <= y
SetMax(S) == CHOOSE x \in S : \A y \in S : x >= y

\* text.split(sep, 1): one or two pieces, cut at the first occurrence.
Split1(t, sep) ==
  IF Occurrences(t, sep) = {} THEN <<t>>
  ELSE LET i == SetMin(Occurrences(t, sep))
       IN <<SubSeq(t, 1, i - 1), SubSeq(t, i + Len(sep), Len(t))>>

\* text.rsplit(sep, 1): one or two pieces, cut at the last occurrence.
RSplit1(t, sep) ==
  IF Occurrences(t, sep) = {} THEN <<t>>
  ELSE LET i == SetMax(Occurrences(t, sep))
       IN <<SubSeq(t, 1, i - 1), SubSeq(t, i + Len(sep), Len(t))>>

\* The result of an operation that may raise: the value, or the exception.
Ok(v) == [err |-> "none", val |-> v]
Raised(e) == [err |-> e, val |-> <<>>]

\* _strip_fences, lines 100-101: drop the trailing fence when the text ends with it.
StripTrailingFence(t) ==
  IF EndsWith(t, FENCE) THEN RSplit1(t, FENCE)[1] ELSE t

\* _strip_fences: trim; when the text starts with a fence, drop its first line
\* (IndexError when there is no second piece), drop a trailing fence, trim again.
StripFences(text) ==
  LET t1 == Strip(text)
  IN IF StartsWith(t1, FENCE)
     THEN LET pieces == Split1(t1, <<NL>>)
          IN IF Len(pieces) < 2 THEN Raised("IndexError")
             ELSE Ok(Strip(StripTrailingFence(pieces[2])))
     ELSE Ok(t1)

\* "".join(chunks)
RECURSIVE Join(_)
Join(chunks) ==
  IF chunks = <<>> THEN <<>> ELSE Head(chunks) \o Join(Tail(chunks))

\* ------------------------------------------------------------------- JSON
\* Documents: a dict of (key, digit) members, an empty list, or None.
None == [kind |-> "None", items |-> <<>>]
DocEmpty == [kind |-> "dict", items |-> <<>>]
DocA == [kind |-> "dict", items |-> <<<<"a", 1>>>>]
DocList == [kind |-> "list", items |-> <<>>]

Digits == <<"0", "1", "2", "3", "4", "5", "6", "7", "8", "9">>
IsDigit(c) == \E i \in 1..10 : Digits[i] = c
DigitVal(c) == (CHOOSE i \in 1..10 : Digits[i] = c) - 1
QUOTE == "\""

\* One member line of json.dumps(..., indent=2): two spaces, "key": value.
DumpMember(m) == <<" ", " ", QUOTE, m[1], QUOTE, ":", " ", Digits[m[2] + 1]>>

RECURSIVE DumpMembers(_)
DumpMembers(items) ==
  IF Len(items) = 1 THEN DumpMember(items[1])
  ELSE DumpMember(Head(items)) \o <<",", NL>> \o DumpMembers(Tail(items))

\* json.dumps(doc, indent=2, ensure_ascii=False)
JsonDumps(doc) ==
  CASE doc.kind = "None" -> <<"n", "u", "l", "l">>
    [] doc.kind = "list" -> <<"[", "]">>
    [] doc.items = <<>> -> <<"{", "}">>
    [] OTHER -> <<"{", NL>> \o DumpMembers(doc.items) \o <<NL, "}">>

\* text.split(sep): every piece between occurrences of the one-character sep.
RECURSIVE SplitAll(_, _)
SplitAll(t, sep) ==
  IF Occurrences(t, sep) = {} THEN <<t>>
  ELSE <<Split1(t, sep)[1]>> \o SplitAll(Split1(t, sep)[2], sep)

\* A dict keeps the last of the members that share a key.
RECURSIVE LastWins(_)
LastWins(items) ==
  IF items = <<>> THEN <<>>
  ELSE IF \E i \in 2..Len(items) : items[i][1] = Head(items)[1]
       THEN LastWins(Tail(items))
       ELSE <<Head(items)>> \o LastWins(Tail(items))

\* One member of a JSON object: "k" : d, with optional whitespace.
ParseMember(m) ==
  LET t == Strip(m)
  IN IF Len(t) >= 5 /\ t[1] = QUOTE /\ t[3] = QUOTE /\ t[2] # QUOTE
        /\ Strip(SubSeq(t, 4, Len(t) - 1)) = <<":">> /\ IsDigit(t[Len(t)])
     THEN Ok(<<t[2], DigitVal(t[Len(t)])>>)
     ELSE Raised("JSONDecodeError")

\* json.loads on the modelled subset of JSON: null, [], and objects whose
\* members are one-character keys with one-digit values; anything else is a
\* JSONDecodeError.
JsonLoads(text) ==
  LET t == Strip(text)
      inner == Strip(SubSeq(t, 2, Len(t) - 1))
      ms == [i \in 1..Len(SplitAll(inner, <<",">>)) |->
               ParseMember(SplitAll(inner, <<",">>)[i])]
  IN CASE t = <<"n", "u", "l", "l">> -> Ok(None)
       [] Len(t) >= 2 /\ t[1] = "[" /\ t[Len(t)] = "]" /\ inner = <<>> -> Ok(DocList)
       [] Len(t) >= 2 /\ t[1] = "{" /\ t[Len(t)] = "}" /\ inner = <<>> -> Ok(DocEmpty)
       [] Len(t) >= 2 /\ t[1] = "{" /\ t[Len(t)] = "}" /\ inner # <<>>
            /\ (\A i \in 1..Len(ms) : ms[i].err = "none")
          -> Ok([kind |-> "dict",
                 items |-> LastWins([i \in 1..Len(ms) |-> ms[i].val])])
       [] OTHER -> Raised("JSONDecodeError")

\* ------------------------------------------------------- pipeline: state
VARIABLES
  pc,              \* where the driver is
  phases_to_run,   \* main: [1, 2, 3] or [args.phase]
  gemini_key,      \* main: the resolved Gemini credential
  openai_key,      \* main: the resolved OpenAI credential
  fs,              \* the local files the driver touches
  fs0,             \* fs as it was when the run began
  visual_analysis, \* main: phase 1's document, in memory
  synthesis,       \* main: phase 2's document, in memory
  video_state,     \* run_phase1: video_file.state.name
  polls,           \* file-state queries answered PROCESSING so far
  remote_file,     \* whether the uploaded video is held by the remote service
  stream,          \* what the provider has yet to send of the current response
  frags,           \* fragments the provider has sent of the current response
  chunks,          \* the accumulator's list of non-empty fragments
  response,        \* per phase, the response the provider chose to stream
  log,             \* every remote call and file operation, in order
  exit_code,       \* the process's exit code, -1 while it runs
  err              \* what the failure names ("" when none)

pvars == <<pc, phases_to_run, gemini_key, openai_key, fs, fs0, visual_analysis,
           synthesis, video_state, polls, remote_file, stream, frags, chunks,
           response, log, exit_code, err>>

Absent == [exists |-> FALSE, text |-> <<>>]
File(t) == [exists |-> TRUE, text |-> t]

\* The transcript, read once and passed verbatim.
SRT == <<"s">>
\* A cache file cut short by a crash in the middle of a write.
Truncated == <<"{", NL, " ">>

\* What a cache file can hold before the run: nothing, an earlier run's
\* document, or a truncated write.
CacheFiles == {Absent, File(JsonDumps(DocA)), File(Truncated)}
OutFiles == {Absent, File(<<"o">>)}

\* The filesystems a run can start in: without the cache directory there are
\* no cache files.
InitialFs ==
  {f \in [cache_dir : BOOLEAN, va : CacheFiles, syn : CacheFiles,
          out : OutFiles, video : BOOLEAN, srt : BOOLEAN] :
     ~f.cache_dir => (f.va = Absent /\ f.syn = Absent)}

Entry(op, arg, res) == [op |-> op, arg |-> arg, res |-> res]
RemoteOps == {"upload", "get", "generate1", "generate2", "generate3", "delete"}
Count(op) == Cardinality({i \in 1..Len(log) : log[i].op = op})

InitPipeline ==
  /\ pc = "start"
  /\ phases_to_run = {}
  /\ gemini_key = "None"
  /\ openai_key = "None"
  /\ fs \in InitialFs
  /\ fs0 = fs
  /\ visual_analysis = None
  /\ synthesis = None
  /\ video_state = "none"
  /\ polls = 0
  /\ remote_file = FALSE
  /\ stream = <<>>
  /\ frags = 0
  /\ chunks = <<>>
  /\ response = [p \in 1..3 |-> <<>>]
  /\ log = <<>>
  /\ exit_code = -1
  /\ err = ""

\* A mutant of the failure path: the error is recorded, but the driver
\* carries on with what comes next instead of ending the process.
Exit1AndCarryOn(e) ==
  /\ pc' = "phase3"
  /\ exit_code' = 1
  /\ err' = e

\* sys.exit(1) after an error message, or an uncaught exception: both end the
\* process with exit code 1.
Exit1(e) ==
  /\ pc' = "exit"
  /\ exit_code' = 1
  /\ err' = e

\* ---------------------------------------------------- pipeline: the driver
\* --gemini-key / --openai-key and the environment: unset, empty, or a key.
KeyValues == {"None", "", "k"}
\* Python's `a or b`
PyOr(a, b) == IF a \in {"None", ""} THEN b ELSE a
\* Python's `not key`
Missing(key) == key \in {"None", ""}
\* --phase: 0 stands for None (all phases).
PhaseArgs == {0, 1, 2, 3}

\* A mutant of the credential check: the OpenAI key is required by every run.
NeedsOpenAIAlways(phases) == TRUE

\* main, line 479: any(p in [1, 2] for p in phases_to_run)
NeedsGemini(phases) == \E p \in phases : p \in {1, 2}
\* main, line 482: 3 in phases_to_run
NeedsOpenAI(phases) == 3 \in phases

\* main, lines 470-484: parse the arguments, resolve the keys, check them.
Main_CheckKeys ==
  /\ pc = "start"
  /\ \E phase \in PhaseArgs, ga \in KeyValues, ge \in KeyValues,
        oa \in KeyValues, oe \in KeyValues :
       LET phases == IF phase = 0 THEN {1, 2, 3} ELSE {phase}
           gk == PyOr(ga, ge)
           ok == PyOr(oa, oe)
       IN /\ phases_to_run' = phases
          /\ gemini_key' = gk
          /\ openai_key' = ok
          /\ IF NeedsGemini(phases) /\ Missing(gk) THEN Exit1("gemini_key")
             ELSE IF NeedsOpenAI(phases) /\ Missing(ok) THEN Exit1("openai_key")
             ELSE pc' = "paths" /\ UNCHANGED <<exit_code, err>>
  /\ UNCHANGED <<fs, fs0, visual_analysis, synthesis, video_state, polls,
                 remote_file, stream, frags, chunks, response, log>>

\* main, lines 486-501: create the cache directory, check the inputs, read
\* the transcript.
Main_ResolvePaths ==
  /\ pc = "paths"
  /\ fs' = [fs EXCEPT !.cache_dir = TRUE]
  /\ IF ~fs.video
     THEN /\ Exit1("video_not_found")
          /\ log' = log \o <<Entry("mkdir", <<>>, "ok"), Entry("exists_video", <<>>, "no")>>
     ELSE IF ~fs.srt
     THEN /\ Exit1("srt_not_found")
          /\ log' = log \o <<Entry("mkdir", <<>>, "ok"), Entry("exists_video", <<>>, "yes"),
                            Entry("exists_srt", <<>>, "no")>>
     ELSE /\ pc' = "phase1"
          /\ log' = log \o <<Entry("mkdir", <<>>, "ok"), Entry("exists_video", <<>>, "yes"),
                            Entry("exists_srt", <<>>, "yes"), Entry("read_srt", <<>>, "ok")>>
          /\ UNCHANGED <<exit_code, err>>
  /\ UNCHANGED <<phases_to_run, gemini_key, openai_key, fs0, visual_analysis,
                 synthesis, video_state, polls, remote_file, stream, frags,
                 chunks, response>>

\* A mutant of the phase-1 selection: a cached document makes the driver skip
\* phase 1 even when it is requested.
RunsPhase1UnlessCached(phases, cached) == 1 \in phases /\ ~cached.exists
\* A mutant of the phase-1 selection: phase 1 also runs when only phase 2 is
\* requested.
RunsPhase1ForPhase2(phases, cached) == 1 \in phases \/ 2 \in phases

\* main, line 513: phase 1 runs when it is requested, whatever the cache holds.
RunsPhase1(phases, cached) == 1 \in phases

\* main, line 526
RunsPhase2(phases, cached) == 2 \in phases

\* main, line 520: any(p in [2] for p in phases_to_run)
RequiresVisualAnalysis(phases) == \E q \in phases : q \in {2}

\* A mutant of the prerequisite check: phase 3 never asks for the synthesis.
RequiresSynthesisNever(phases) == FALSE

\* main, line 533: 3 in phases_to_run
RequiresSynthesis(phases) == 3 \in phases

\* main, lines 511-522: run phase 1, or load its cached document, or stop
\* because phase 2 needs it.
Main_Phase1 ==
  /\ pc = "phase1"
  /\ IF RunsPhase1(phases_to_run, fs.va)
     THEN /\ pc' = "p1_upload"
          /\ log' = Append(log, Entry("stat_video", <<>>, "ok"))
          /\ UNCHANGED <<visual_analysis, exit_code, err>>
     ELSE IF fs.va.exists
     THEN /\ log' = log \o <<Entry("exists_va", <<>>, "yes"),
                            Entry("read_va", fs.va.text, "ok")>>
          /\ IF JsonLoads(fs.va.text).err = "none"
             THEN /\ visual_analysis' = JsonLoads(fs.va.text).val
                  /\ pc' = "phase2"
                  /\ UNCHANGED <<exit_code, err>>
             ELSE /\ Exit1(JsonLoads(fs.va.text).err)
                  /\ UNCHANGED visual_analysis
     ELSE /\ log' = Append(log, Entry("exists_va", <<>>, "no"))
          /\ UNCHANGED visual_analysis
          /\ IF RequiresVisualAnalysis(phases_to_run)
             THEN Exit1("phase2_requires_visual_analysis_run_phase1_first")
             ELSE pc' = "phase2" /\ UNCHANGED <<exit_code, err>>
  /\ UNCHANGED <<phases_to_run, gemini_key, openai_key, fs, fs0, synthesis,
                 video_state, polls, remote_file, stream, frags, chunks, response>>

\* ------------------------------------------------------ pipeline: phase 1
\* What the remote service can report of an uploaded file.
FileStates == {"PROCESSING", "ACTIVE", "FAILED"}

\* run_phase1, lines 148-155: upload the video; the call returns the file with
\* its state, or raises.
P1_Upload ==
  /\ pc = "p1_upload"
  /\ \E r \in FileStates \cup {"raise"} :
       /\ log' = Append(log, Entry("upload", <<>>, r))
       /\ IF r = "raise"
          THEN Exit1("upload_error") /\ UNCHANGED <<video_state, remote_file>>
          ELSE /\ video_state' = r
               /\ remote_file' = TRUE
               /\ pc' = "p1_poll"
               /\ UNCHANGED <<exit_code, err>>
  /\ UNCHANGED <<phases_to_run, gemini_key, openai_key, fs, fs0, visual_analysis,
                 synthesis, polls, stream, frags, chunks, response>>

\* A mutant of the poll loop: the loop is never entered.
StillProcessingNever(state) == FALSE

\* A mutant of the poll loop: a FAILED file is queried again as well.
StillProcessingOrFailed(state) == state \in {"PROCESSING", "FAILED"}

\* run_phase1, line 160: video_file.state.name == "PROCESSING"
StillProcessing(state) == state = "PROCESSING"

\* run_phase1, lines 160-163: while the state is PROCESSING, sleep and query
\* it again.  The service answers PROCESSING at most MaxPolls times.
P1_Poll ==
  /\ pc = "p1_poll"
  /\ StillProcessing(video_state)
  /\ \E r \in FileStates \cup {"raise"} :
       /\ r = "PROCESSING" => polls < MaxPolls
       /\ log' = Append(log, Entry("get", <<>>, r))
       /\ IF r = "raise"
          THEN Exit1("get_error") /\ UNCHANGED <<video_state, polls>>
          ELSE /\ video_state' = r
               /\ polls' = IF r = "PROCESSING" THEN polls + 1 ELSE polls
               /\ UNCHANGED <<pc, exit_code, err>>
  /\ UNCHANGED <<phases_to_run, gemini_key, openai_key, fs, fs0, visual_analysis,
                 synthesis, remote_file, stream, frags, chunks, response>>

\* The texts the JSON phases' provider can answer with: a document inside
\* fences (the opening one with a language tag), a bare document, a list,
\* text that is no JSON, and a fence with no line after it.
JsonResponses ==
  { FENCE \o <<"j", NL, "{", "}">> \o FENCE,
    <<"{", QUOTE, "a", QUOTE, ":", "1", "}">>,
    <<"[", "]">>,
    <<"x">>,
    FENCE }

\* run_phase1, lines 165-186 and _stream_gemini, lines 119-126: a FAILED file
\* is fatal; otherwise the generation request is submitted, and the provider
\* accepts it (choosing its response) or raises.
P1_Request ==
  /\ pc = "p1_poll"
  /\ ~StillProcessing(video_state)
  /\ IF video_state = "FAILED"
     THEN /\ Exit1("RuntimeError_video_processing_failed")
          /\ UNCHANGED <<log, stream, frags, chunks, response>>
     ELSE \E r \in JsonResponses \cup {<<"raise">>} :
            /\ chunks' = <<>>
            /\ frags' = 0
            /\ IF r = <<"raise">>
               THEN /\ log' = Append(log, Entry("generate1", <<>>, "raise"))
                    /\ Exit1("generate_error")
                    /\ UNCHANGED <<stream, response>>
               ELSE /\ log' = Append(log, Entry("generate1", <<>>, "stream"))
                    /\ stream' = r
                    /\ response' = [response EXCEPT ![1] = r]
                    /\ pc' = "p1_stream"
                    /\ UNCHANGED <<exit_code, err>>
  /\ UNCHANGED <<phases_to_run, gemini_key, openai_key, fs, fs0, visual_analysis,
                 synthesis, video_state, polls, remote_file>>

\* ------------------------------------------------- the streaming accumulator
\* A mutant of the accumulator: a new fragment is put in front of the others.
AccumulateInFront(cs, f) == IF f # <<>> THEN <<f>> \o cs ELSE cs

\* _stream_gemini, lines 129-130, and run_phase3, lines 423-425: a fragment
\* with text is appended; an empty one (or None) is skipped.
Accumulate(cs, f) == IF f # <<>> THEN Append(cs, f) ELSE cs

\* The provider sends its next fragment: any prefix of what is left, the empty
\* one included; the last of the MaxFrags fragments carries all that is left.
NextFragments ==
  {n \in 0..Len(stream) : frags + 1 < MaxFrags \/ n = Len(stream)}

StreamStep ==
  /\ frags < MaxFrags
  /\ \E n \in NextFragments :
       /\ chunks' = Accumulate(chunks, SubSeq(stream, 1, n))
       /\ stream' = SubSeq(stream, n + 1, Len(stream))
  /\ frags' = frags + 1

\* _stream_gemini, lines 128-135: one turn of the loop over the response.
Gemini_Chunk ==
  /\ pc \in {"p1_stream", "p2_stream"}
  /\ StreamStep
  /\ UNCHANGED <<pc, response, phases_to_run, gemini_key, openai_key, fs, fs0,
                 visual_analysis, synthesis, video_state, polls, remote_file,
                 log, exit_code, err>>

\* _stream_gemini, line 128, and run_phase3, line 422: the stream breaks and
\* the iteration raises; nothing catches it, and the process's memory and
\* the connection are gone.
Stream_Error ==
  /\ pc \in {"p1_stream", "p2_stream", "p3_stream"}
  /\ Exit1("stream_error")
  /\ stream' = <<>>
  /\ frags' = 0
  /\ chunks' = <<>>
  /\ UNCHANGED <<phases_to_run, gemini_key, openai_key, fs, fs0,
                 visual_analysis, synthesis, video_state, polls, remote_file,
                 response, log>>

\* run_phase1, lines 187-189, and run_phase2, lines 296-298: strip the fences
\* and parse; either step may raise.
ParseResponse(text) ==
  IF StripFences(text).err # "none" THEN StripFences(text)
  ELSE JsonLoads(StripFences(text).val)

\* run_phase1, lines 186-196 (with _stream_gemini's return, line 138): the
\* stream has ended; join, strip, parse, write the cache file, count the
\* observations (result.get: only a dict has it).
P1_Finish ==
  /\ pc = "p1_stream"
  /\ stream = <<>>
  /\ LET r == ParseResponse(Join(chunks))
     IN IF r.err # "none"
        THEN Exit1(r.err) /\ UNCHANGED <<fs, log, visual_analysis>>
        ELSE /\ fs' = [fs EXCEPT !.va = File(JsonDumps(r.val))]
             /\ log' = Append(log, Entry("write_va", JsonDumps(r.val), "ok"))
             /\ IF r.val.kind # "dict"
                THEN Exit1("AttributeError") /\ UNCHANGED visual_analysis
                ELSE /\ visual_analysis' = r.val
                     /\ pc' = "p1_delete"
                     /\ UNCHANGED <<exit_code, err>>
  /\ chunks' = <<>>
  /\ frags' = 0
  /\ UNCHANGED <<phases_to_run, gemini_key, openai_key, fs0, synthesis,
                 video_state, polls, remote_file, stream, response>>

\* A mutant of the clean-up: a failure of the delete is not swallowed.
P1_DeleteFatal ==
  /\ pc = "p1_delete"
  /\ \E r \in {"ok", "raise"} :
       /\ log' = Append(log, Entry("delete", <<>>, r))
       /\ remote_file' = (r = "raise")
       /\ IF r = "raise"
          THEN Exit1("delete_error")
          ELSE pc' = "phase2" /\ UNCHANGED <<exit_code, err>>
  /\ UNCHANGED <<phases_to_run, gemini_key, openai_key, fs, fs0, visual_analysis,
                 synthesis, video_state, polls, stream, frags, chunks, response>>

\* run_phase1, lines 198-206: delete the uploaded file; a failure is swallowed.
P1_Delete ==
  /\ pc = "p1_delete"
  /\ \E r \in {"ok", "raise"} :
       /\ log' = Append(log, Entry("delete", <<>>, r))
       /\ remote_file' = (r = "raise")
  /\ pc' = "phase2"
  /\ UNCHANGED <<phases_to_run, gemini_key, openai_key, fs, fs0, visual_analysis,
                 synthesis, video_state, polls, stream, frags, chunks, response,
                 exit_code, err>>

\* ------------------------------------------------------ pipeline: phase 2
\* main, lines 524-535: run phase 2, or load its cached document, or stop
\* because phase 3 needs it.
Main_Phase2 ==
  /\ pc = "phase2"
  /\ IF RunsPhase2(phases_to_run, fs.syn)
     THEN /\ pc' = "p2_request"
          /\ UNCHANGED <<synthesis, log, exit_code, err>>
     ELSE IF fs.syn.exists
     THEN /\ log' = log \o <<Entry("exists_syn", <<>>, "yes"),
                            Entry("read_syn", fs.syn.text, "ok")>>
          /\ IF JsonLoads(fs.syn.text).err = "none"
             THEN /\ synthesis' = JsonLoads(fs.syn.text).val
                  /\ pc' = "phase3"
                  /\ UNCHANGED <<exit_code, err>>
             ELSE /\ Exit1(JsonLoads(fs.syn.text).err)
                  /\ UNCHANGED synthesis
     ELSE /\ log' = Append(log, Entry("exists_syn", <<>>, "no"))
          /\ UNCHANGED synthesis
          /\ IF RequiresSynthesis(phases_to_run)
             THEN Exit1("phase3_requires_synthesis_run_phase2_first")
             ELSE pc' = "phase3" /\ UNCHANGED <<exit_code, err>>
  /\ UNCHANGED <<phases_to_run, gemini_key, openai_key, fs, fs0, visual_analysis,
                 video_state, polls, remote_file, stream, frags, chunks, response>>

\* run_phase2, lines 288-295, and _stream_gemini, lines 119-126: the prompt
\* embeds the visual analysis, re-serialised; the request is submitted.
P2_Request ==
  /\ pc = "p2_request"
  /\ \E r \in JsonResponses \cup {<<"raise">>} :
       /\ chunks' = <<>>
       /\ frags' = 0
       /\ IF r = <<"raise">>
          THEN /\ log' = Append(log, Entry("generate2", JsonDumps(visual_analysis), "raise"))
               /\ Exit1("generate_error")
               /\ UNCHANGED <<stream, response>>
          ELSE /\ log' = Append(log, Entry("generate2", JsonDumps(visual_analysis), "stream"))
               /\ stream' = r
               /\ response' = [response EXCEPT ![2] = r]
               /\ pc' = "p2_stream"
               /\ UNCHANGED <<exit_code, err>>
  /\ UNCHANGED <<phases_to_run, gemini_key, openai_key, fs, fs0, visual_analysis,
                 synthesis, video_state, polls, remote_file>>

\* run_phase2, lines 295-308: the stream has ended; join, strip, parse, write
\* the cache file, count the findings (result.get: only a dict has it).
P2_Finish ==
  /\ pc = "p2_stream"
  /\ stream = <<>>
  /\ LET r == ParseResponse(Join(chunks))
     IN IF r.err # "none"
        THEN Exit1(r.err) /\ UNCHANGED <<fs, log, synthesis>>
        ELSE /\ fs' = [fs EXCEPT !.syn = File(JsonDumps(r.val))]
             /\ log' = Append(log, Entry("write_syn", JsonDumps(r.val), "ok"))
             /\ IF r.val.kind # "dict"
                THEN Exit1("AttributeError") /\ UNCHANGED synthesis
                ELSE /\ synthesis' = r.val
                     /\ pc' = "phase3"
                     /\ UNCHANGED <<exit_code, err>>
  /\ chunks' = <<>>
  /\ frags' = 0
  /\ UNCHANGED <<phases_to_run, gemini_key, openai_key, fs0, visual_analysis,
                 video_state, polls, remote_file, stream, response>>

\* ------------------------------------------------------ pipeline: phase 3
\* The Markdown the document provider can answer with: a heading, a fenced
\* block, text with whitespace around it.
MarkdownResponses ==
  { <<"#", " ", "P", NL>>,
    FENCE \o <<NL, "x">> \o FENCE,
    <<" ", "x", NL>> }

\* main, lines 537-545: run phase 3 when it is requested; otherwise the run
\* is done.
Main_Phase3 ==
  /\ pc = "phase3"
  /\ IF 3 \in phases_to_run
     THEN pc' = "p3_request" /\ UNCHANGED exit_code
     ELSE pc' = "done" /\ exit_code' = 0
  /\ UNCHANGED <<phases_to_run, gemini_key, openai_key, fs, fs0, visual_analysis,
                 synthesis, video_state, polls, remote_file, stream, frags,
                 chunks, response, log, err>>

\* run_phase3, lines 399-420: the prompt embeds the synthesis; the streamed
\* request is submitted.
P3_Request ==
  /\ pc = "p3_request"
  /\ \E r \in MarkdownResponses \cup {<<"raise">>} :
       /\ chunks' = <<>>
       /\ frags' = 0
       /\ IF r = <<"raise">>
          THEN /\ log' = Append(log, Entry("generate3", JsonDumps(synthesis), "raise"))
               /\ Exit1("generate_error")
               /\ UNCHANGED <<stream, response>>
          ELSE /\ log' = Append(log, Entry("generate3", JsonDumps(synthesis), "stream"))
               /\ stream' = r
               /\ response' = [response EXCEPT ![3] = r]
               /\ pc' = "p3_stream"
               /\ UNCHANGED <<exit_code, err>>
  /\ UNCHANGED <<phases_to_run, gemini_key, openai_key, fs, fs0, visual_analysis,
                 synthesis, video_state, polls, remote_file>>

\* run_phase3, lines 422-429: one turn of the loop over the events.
P3_Chunk ==
  /\ pc = "p3_stream"
  /\ StreamStep
  /\ UNCHANGED <<pc, response, phases_to_run, gemini_key, openai_key, fs, fs0,
                 visual_analysis, synthesis, video_state, polls, remote_file,
                 log, exit_code, err>>

\* run_phase3, line 433
PrdContent(cs) == Join(cs)

\* run_phase3, lines 431-444, and main, lines 541-545: write the document;
\* the run is done.
P3_Finish ==
  /\ pc = "p3_stream"
  /\ stream = <<>>
  /\ fs' = [fs EXCEPT !.out = File(PrdContent(chunks))]
  /\ log' = Append(log, Entry("write_out", PrdContent(chunks), "ok"))
  /\ chunks' = <<>>
  /\ pc' = "done"
  /\ exit_code' = 0
  /\ UNCHANGED <<phases_to_run, gemini_key, openai_key, fs0, visual_analysis,
                 synthesis, video_state, polls, remote_file, stream, frags,
                 response, err>>

\* ------------------------------------------------------- promotion: state
VARIABLES
  m_pc,             \* where the promotion utility is
  args,             \* the parsed command line: name, plan, cache, output_root
  src,              \* the nodes of the source side of the filesystem, by path
  plan_path,        \* main: Path(args.plan).resolve()
  cache_dir,        \* main: Path(args.cache).resolve(), or its replacement
  output_root,      \* main: Path(args.output_root).resolve()
  dest,             \* the destination directory and what it holds
  dest0,            \* dest as it was when the run began
  copied_artifacts, \* promote: the artifacts copied so far
  next_artifact,    \* promote: the loop's position in the two filenames
  m_exit,           \* the process's exit code, -1 while it runs
  m_err,            \* what the failure names ("" when none)
  warned            \* whether the missing-cache warning was printed

mvars == <<m_pc, args, src, plan_path, cache_dir, output_root, dest, dest0,
           copied_artifacts, next_artifact, m_exit, m_err, warned>>

\* A path is the sequence of its components; an absolute one starts at "/".
Cwd == <<"/", "work">>
IsAbsolute(path) == path # <<>> /\ path[1] = "/"
\* The "." components of a path are dropped.
RECURSIVE DropDots(_)
DropDots(path) ==
  IF path = <<>> THEN <<>>
  ELSE IF Head(path) = "." THEN DropDots(Tail(path))
  ELSE <<Head(path)>> \o DropDots(Tail(path))

\* Path(p).resolve(): absolute, relative to the working directory, no dots.
Resolve(path) ==
  IF IsAbsolute(path) THEN DropDots(path) ELSE Cwd \o DropDots(path)

\* promote, line 39
ArtifactNames == <<"visual_analysis.json", "synthesis.json">>

\* The command lines: the defaults, or paths given by the user.
PlanArgs == {<<"engineering_plan.md">>, <<"/", "plans", "plan.md">>}
CacheArgs == {<<".cache">>, <<"/", "data", "cache">>}
PromoteArgs ==
  [name : {"my-saas-product"}, plan : PlanArgs, cache : CacheArgs,
   output_root : {<<".">>}]

\* The kinds of node a path can name.
NodeKinds == {"absent", "file", "dir"}

\* The source side a run can meet: the plan is missing, a file or a
\* directory; the cache directory is missing or there, and then each
\* artifact is missing, a file or a directory.
SourceTrees(a) ==
  {t \in [{Resolve(a.plan), Resolve(a.cache),
           Resolve(a.cache) \o <<ArtifactNames[1]>>,
           Resolve(a.cache) \o <<ArtifactNames[2]>>} -> NodeKinds] :
     /\ t[Resolve(a.cache)] # "file"
     /\ t[Resolve(a.cache)] = "absent" =>
          \A i \in 1..2 : t[Resolve(a.cache) \o <<ArtifactNames[i]>>] = "absent"}

\* path.exists() on the source side; a path the tree does not know is absent.
Kind(path) == IF path \in DOMAIN src THEN src[path] ELSE "absent"
Exists(path) == Kind(path) # "absent"

NoFile == [exists |-> FALSE, from |-> <<>>]
\* A copied file is known by the path it was copied from.
CopyOf(path) == [exists |-> TRUE, from |-> path]
NoMetadata ==
  [exists |-> FALSE, name |-> "", source_plan |-> <<>>, source_cache |-> <<>>,
   artifacts |-> <<>>]
NoReadme == [exists |-> FALSE, lines |-> <<>>]

EmptyDest ==
  [exists |-> FALSE, artifacts_dir |-> FALSE, prd |-> NoFile,
   artifacts |-> [i \in 1..2 |-> NoFile], metadata |-> NoMetadata,
   readme |-> NoReadme]
\* A destination left by an earlier promotion of another plan.
OldDest ==
  [exists |-> TRUE, artifacts_dir |-> TRUE, prd |-> CopyOf(<<"/", "old", "plan.md">>),
   artifacts |-> [i \in 1..2 |-> NoFile], metadata |-> NoMetadata,
   readme |-> NoReadme]

InitPromote ==
  /\ m_pc = "start"
  /\ args \in PromoteArgs
  /\ src \in SourceTrees(args)
  /\ plan_path = <<>>
  /\ cache_dir = <<>>
  /\ output_root = <<>>
  /\ dest \in {EmptyDest, OldDest}
  /\ dest0 = dest
  /\ copied_artifacts = <<>>
  /\ next_artifact = 1
  /\ m_exit = -1
  /\ m_err = ""
  /\ warned = FALSE

PromoteExit1(e) ==
  /\ m_pc' = "exit"
  /\ m_exit' = 1
  /\ m_err' = e

\* main, lines 107-110: a missing cache directory is replaced by /nonexistent.
CacheDirOrNonexistent(path) ==
  IF Exists(path) THEN path ELSE <<"/", "nonexistent">>

\* main, lines 97-112: resolve the paths; the plan must exist; a missing cache
\* directory only warns.
Promote_Main ==
  /\ m_pc = "start"
  /\ plan_path' = Resolve(args.plan)
  /\ output_root' = Resolve(args.output_root)
  /\ IF ~Exists(Resolve(args.plan))
     THEN /\ PromoteExit1("plan_not_found")
          /\ cache_dir' = Resolve(args.cache)
          /\ UNCHANGED warned
     ELSE /\ cache_dir' = CacheDirOrNonexistent(Resolve(args.cache))
          /\ warned' = ~Exists(Resolve(args.cache))
          /\ m_pc' = "promote"
          /\ UNCHANGED <<m_exit, m_err>>
  /\ UNCHANGED <<args, src, dest, dest0, copied_artifacts, next_artifact>>

\* A mutant of the destination check: an existing directory is promoted onto.
DestTakenNever(d) == FALSE

\* promote, line 24: dest.exists()
DestTaken(d) == d.exists

\* promote, lines 23-31: an existing destination is fatal; otherwise the
\* directory and its artifacts subdirectory are created.
Promote_CheckDest ==
  /\ m_pc = "promote"
  /\ IF DestTaken(dest)
     THEN PromoteExit1("directory_already_exists") /\ UNCHANGED dest
     ELSE /\ dest' = [dest EXCEPT !.exists = TRUE, !.artifacts_dir = TRUE]
          /\ m_pc' = "copy_plan"
          /\ UNCHANGED <<m_exit, m_err>>
  /\ UNCHANGED <<args, src, plan_path, cache_dir, output_root, dest0,
                 copied_artifacts, next_artifact, warned>>

\* promote, lines 33-38: copy the plan to PRD.md (shutil.copy2 raises on a
\* directory); start the artifact loop.
Promote_CopyPlan ==
  /\ m_pc = "copy_plan"
  /\ IF Kind(plan_path) = "dir"
     THEN PromoteExit1("IsADirectoryError") /\ UNCHANGED dest
     ELSE /\ dest' = [dest EXCEPT !.prd = CopyOf(plan_path)]
          /\ m_pc' = "copy_artifacts"
          /\ UNCHANGED <<m_exit, m_err>>
  /\ copied_artifacts' = <<>>
  /\ next_artifact' = 1
  /\ UNCHANGED <<args, src, plan_path, cache_dir, output_root, dest0, warned>>

\* promote, line 43
RecordCopy(copied, filename) == Append(copied, filename)

\* promote, lines 39-44: one turn of the loop over the two filenames: copy the
\* file when the cache has it, and record its name.
Promote_CopyArtifact ==
  /\ m_pc = "copy_artifacts"
  /\ next_artifact <= Len(ArtifactNames)
  /\ LET filename == ArtifactNames[next_artifact]
         from == cache_dir \o <<filename>>
     IN IF ~Exists(from)
        THEN UNCHANGED <<dest, copied_artifacts, m_pc, m_exit, m_err>>
        ELSE IF Kind(from) = "dir"
        THEN PromoteExit1("IsADirectoryError") /\ UNCHANGED <<dest, copied_artifacts>>
        ELSE /\ dest' = [dest EXCEPT !.artifacts[next_artifact] = CopyOf(from)]
             /\ copied_artifacts' = RecordCopy(copied_artifacts, filename)
             /\ UNCHANGED <<m_pc, m_exit, m_err>>
  /\ next_artifact' = next_artifact + 1
  /\ UNCHANGED <<args, src, plan_path, cache_dir, output_root, dest0, warned>>

\* promote, lines 46-56: write metadata.json.
Promote_WriteMetadata ==
  /\ m_pc = "copy_artifacts"
  /\ next_artifact > Len(ArtifactNames)
  /\ dest' = [dest EXCEPT !.metadata =
                [exists |-> TRUE, name |-> args.name, source_plan |-> plan_path,
                 source_cache |-> cache_dir, artifacts |-> copied_artifacts]]
  /\ m_pc' = "readme"
  /\ UNCHANGED <<args, src, plan_path, cache_dir, output_root, dest0,
                 copied_artifacts, next_artifact, m_exit, m_err, warned>>

\* The README's lines (the dash of the source is written "-").
ReadmeHeading(name) == <<"# ", name>>
ReadmePromoted == <<"Engineering plan promoted on ", "today", ".">>
ReadmeContents == <<"## Contents">>
ReadmeBlank == <<"">>
ReadmePrd == <<"- **PRD.md** - Product Requirements Document">>
ReadmeArtifact(filename) ==
  IF filename = "visual_analysis.json"
  THEN <<"- **artifacts/visual_analysis.json** - Timestamped visual observations from source video">>
  ELSE <<"- **artifacts/synthesis.json** - Synthesized pain points, workflows, and requirements">>
ReadmeMetadata == <<"- **artifacts/metadata.json** - Promotion metadata">>

\* x in copied_artifacts
InList(x, list) == \E i \in 1..Len(list) : list[i] = x

\* A mutant of the README: the synthesis line is always written.
ReadmeLinesAlwaysSynthesis(name, copied) ==
  <<ReadmeHeading(name), ReadmeBlank, ReadmePromoted, ReadmeBlank,
    ReadmeContents, ReadmeBlank, ReadmePrd>>
  \o (IF InList("visual_analysis.json", copied)
      THEN <<ReadmeArtifact("visual_analysis.json")>> ELSE <<>>)
  \o <<ReadmeArtifact("synthesis.json")>>
  \o <<ReadmeMetadata, ReadmeBlank>>

\* promote, lines 59-73: the README's lines; an artifact's line only when it
\* was copied.
ReadmeLines(name, copied) ==
  <<ReadmeHeading(name), ReadmeBlank, ReadmePromoted, ReadmeBlank,
    ReadmeContents, ReadmeBlank, ReadmePrd>>
  \o (IF InList("visual_analysis.json", copied)
      THEN <<ReadmeArtifact("visual_analysis.json")>> ELSE <<>>)
  \o (IF InList("synthesis.json", copied)
      THEN <<ReadmeArtifact("synthesis.json")>> ELSE <<>>)
  \o <<ReadmeMetadata, ReadmeBlank>>

\* promote, lines 58-78, and main, lines 115-116: write the README; done.
Promote_WriteReadme ==
  /\ m_pc = "readme"
  /\ dest' = [dest EXCEPT !.readme =
                [exists |-> TRUE, lines |-> ReadmeLines(args.name, copied_artifacts)]]
  /\ m_pc' = "done"
  /\ m_exit' = 0
  /\ UNCHANGED <<args, src, plan_path, cache_dir, output_root, dest0,
                 copied_artifacts, next_artifact, m_err, warned>>

\* -------------------------------------------------- fence stripping: state
VARIABLES
  sf_pc,    \* "in", then "once", then "twice"
  sf_text,  \* the text handed to _strip_fences
  sf_once,  \* _strip_fences(text): the result, or the exception
  sf_twice  \* _strip_fences(_strip_fences(text))

svars == <<sf_pc, sf_text, sf_once, sf_twice>>

\* The characters of the texts: the backtick, the newline (which is also
\* whitespace), and a letter.
StripAlphabet == {BT, NL, "x"}
Texts == UNION {[1..n -> StripAlphabet] : n \in 0..MaxTextLen}

InitStrip ==
  /\ sf_pc = "in"
  /\ sf_text \in Texts
  /\ sf_once = Ok(<<>>)
  /\ sf_twice = Ok(<<>>)

\* _strip_fences applied to the text.
Strip_Once ==
  /\ sf_pc = "in"
  /\ sf_once' = StripFences(sf_text)
  /\ sf_pc' = "once"
  /\ UNCHANGED <<sf_text, sf_twice>>

\* _strip_fences applied to its own result, when there is one.
Strip_Twice ==
  /\ sf_pc = "once"
  /\ sf_once.err = "none"
  /\ sf_twice' = StripFences(sf_once.val)
  /\ sf_pc' = "twice"
  /\ UNCHANGED <<sf_text, sf_once>>

\* ---------------------------------------------------------- specifications
vars == <<pvars, mvars, svars>>

\* The tools are separate programs: while one runs, the others are idle.
PipelineIdle ==
  /\ pc = "idle" /\ phases_to_run = {} /\ gemini_key = "None" /\ openai_key = "None"
  /\ fs = [cache_dir |-> FALSE, va |-> Absent, syn |-> Absent, out |-> Absent,
           video |-> FALSE, srt |-> FALSE]
  /\ fs0 = fs /\ visual_analysis = None /\ synthesis = None
  /\ video_state = "none" /\ polls = 0 /\ remote_file = FALSE /\ stream = <<>>
  /\ frags = 0 /\ chunks = <<>> /\ response = [p \in 1..3 |-> <<>>]
  /\ log = <<>> /\ exit_code = -1 /\ err = ""

PromoteIdle ==
  /\ m_pc = "idle"
  /\ args = [name |-> "", plan |-> <<>>, cache |-> <<>>, output_root |-> <<>>]
  /\ src = <<>> /\ plan_path = <<>> /\ cache_dir = <<>> /\ output_root = <<>>
  /\ dest = EmptyDest /\ dest0 = EmptyDest /\ copied_artifacts = <<>>
  /\ next_artifact = 1 /\ m_exit = -1 /\ m_err = "" /\ warned = FALSE

StripIdle ==
  /\ sf_pc = "idle" /\ sf_text = <<>> /\ sf_once = Ok(<<>>) /\ sf_twice = Ok(<<>>)

\* The pipeline driver.
Init == InitPipeline /\ PromoteIdle /\ StripIdle
Next ==
  \/ Main_CheckKeys /\ UNCHANGED <<mvars, svars>>
  \/ Main_ResolvePaths /\ UNCHANGED <<mvars, svars>>
  \/ Main_Phase1 /\ UNCHANGED <<mvars, svars>>
  \/ P1_Upload /\ UNCHANGED <<mvars, svars>>
  \/ P1_Poll /\ UNCHANGED <<mvars, svars>>
  \/ P1_Request /\ UNCHANGED <<mvars, svars>>
  \/ Gemini_Chunk /\ UNCHANGED <<mvars, svars>>
  \/ Stream_Error /\ UNCHANGED <<mvars, svars>>
  \/ P1_Finish /\ UNCHANGED <<mvars, svars>>
  \/ P1_Delete /\ UNCHANGED <<mvars, svars>>
  \/ Main_Phase2 /\ UNCHANGED <<mvars, svars>>
  \/ P2_Request /\ UNCHANGED <<mvars, svars>>
  \/ P2_Finish /\ UNCHANGED <<mvars, svars>>
  \/ Main_Phase3 /\ UNCHANGED <<mvars, svars>>
  \/ P3_Request /\ UNCHANGED <<mvars, svars>>
  \/ P3_Chunk /\ UNCHANGED <<mvars, svars>>
  \/ P3_Finish /\ UNCHANGED <<mvars, svars>>
Spec == Init /\ [][Next]_vars

\* The promotion utility.
InitPromotion == InitPromote /\ PipelineIdle /\ StripIdle
NextPromotion ==
  \/ Promote_Main /\ UNCHANGED <<pvars, svars>>
  \/ Promote_CheckDest /\ UNCHANGED <<pvars, svars>>
  \/ Promote_CopyPlan /\ UNCHANGED <<pvars, svars>>
  \/ Promote_CopyArtifact /\ UNCHANGED <<pvars, svars>>
  \/ Promote_WriteMetadata /\ UNCHANGED <<pvars, svars>>
  \/ Promote_WriteReadme /\ UNCHANGED <<pvars, svars>>
SpecPromote == InitPromotion /\ [][NextPromotion]_vars

\* Fence stripping, over every text of the bounded alphabet.
InitStripping == InitStrip /\ PipelineIdle /\ PromoteIdle
NextStripping ==
  \/ Strip_Once /\ UNCHANGED <<pvars, mvars>>
  \/ Strip_Twice /\ UNCHANGED <<pvars, mvars>>
SpecStrip == InitStripping /\ [][NextStripping]_vars

\* ================================================================= claims
\* The run is over.
Terminated == pc \in {"exit", "done"}
\* Positions of the log that are remote calls.
RemoteCalls == {i \in 1..Len(log) : log[i].op \in RemoteOps}
\* Positions of the log that write a cache file or the output document.
FileWrites == {i \in 1..Len(log) : log[i].op \in {"write_va", "write_syn", "write_out"}}
\* No remote call was made and no cache or output file was written.
NothingDone ==
  /\ RemoteCalls = {}
  /\ FileWrites = {}
  /\ fs.va = fs0.va /\ fs.syn = fs0.syn /\ fs.out = fs0.out
NamesPhase2 == "phase3_requires_synthesis_run_phase2_first"
NamesPhase1 == "phase2_requires_visual_analysis_run_phase1_first"

\* C1 as stated: whenever a single later phase is requested and its
\* prerequisite cache file is absent, the finished run has exit code 1, its
\* error names the missing prerequisite (phase 2 for --phase 3, phase 1 for
\* --phase 2), and nothing was called or written.
C1_AlwaysNamesPrerequisite ==
  /\ (Terminated /\ phases_to_run = {3} /\ ~fs0.syn.exists)
       => (exit_code = 1 /\ err = NamesPhase2 /\ NothingDone)
  /\ (Terminated /\ phases_to_run = {2} /\ ~fs0.va.exists)
       => (exit_code = 1 /\ err = NamesPhase1 /\ NothingDone)

\* The run gets as far as the prerequisite check of the phase: the credential
\* the phase needs is there, the video and the subtitles exist and, for phase
\* 3, a cached visual_analysis.json parses if there is one.
ReachesPrerequisiteCheck(phase) ==
  /\ fs0.video /\ fs0.srt
  /\ phase = 2 => ~Missing(gemini_key)
  /\ phase = 3 => /\ ~Missing(openai_key)
                  /\ fs0.va.exists => JsonLoads(fs0.va.text).err = "none"

\* C1, amended: with --phase 3 and no synthesis.json, or --phase 2 and no
\* visual_analysis.json, the run makes no remote call and writes no cache or
\* output file in any state, and when it ends it ends with exit code 1; the
\* error names the missing prerequisite when the run gets as far as that
\* check, and otherwise it is the error of the earlier check that failed.
C1_MissingPrerequisite ==
  /\ (phases_to_run = {3} /\ ~fs0.syn.exists) =>
       /\ NothingDone
       /\ pc # "done"
       /\ Terminated => exit_code = 1
       /\ (Terminated /\ ReachesPrerequisiteCheck(3)) => err = NamesPhase2
       /\ (Terminated /\ ~ReachesPrerequisiteCheck(3)) =>
            err \in {"openai_key", "video_not_found", "srt_not_found", "JSONDecodeError"}
  /\ (phases_to_run = {2} /\ ~fs0.va.exists) =>
       /\ NothingDone
       /\ pc # "done"
       /\ Terminated => exit_code = 1
       /\ (Terminated /\ ReachesPrerequisiteCheck(2)) => err = NamesPhase1
       /\ (Terminated /\ ~ReachesPrerequisiteCheck(2)) =>
            err \in {"gemini_key", "video_not_found", "srt_not_found"}

\* C1's case: a --phase 3 run that loaded the cached visual analysis and
\* stopped because synthesis.json is missing.
C1_Witness ==
  /\ pc = "exit" /\ phases_to_run = {3} /\ err = NamesPhase2
  /\ fs0.va.exists /\ ~fs0.syn.exists

\* C2: in a --phase 2 run that finds visual_analysis.json in the cache, the
\* upload and polling path of phase 1 is never entered, no upload (nor any
\* other phase-1 call) is made, and phase 2 is given the document parsed from
\* the cached file: it is what the driver holds when phase 2 starts and what
\* the phase-2 request embeds.
C2_CachedVisualAnalysisUsed ==
  (phases_to_run = {2} /\ fs0.va.exists) =>
    /\ pc \notin {"p1_upload", "p1_poll", "p1_stream", "p1_delete"}
    /\ \A i \in 1..Len(log) :
         log[i].op \notin {"upload", "get", "generate1", "delete", "write_va"}
    /\ fs.va = fs0.va
    /\ pc \in {"p2_request", "p2_stream"} =>
         /\ JsonLoads(fs0.va.text).err = "none"
         /\ visual_analysis = JsonLoads(fs0.va.text).val
         /\ \E i \in 1..Len(log) : log[i].op = "read_va" /\ log[i].arg = fs0.va.text
    /\ \A i \in 1..Len(log) : log[i].op = "generate2" =>
         /\ JsonLoads(fs0.va.text).err = "none"
         /\ log[i].arg = JsonDumps(JsonLoads(fs0.va.text).val)

\* C2's case: the phase-2 request has been sent in a --phase 2 run that
\* started with a cached visual analysis.
C2_Witness ==
  /\ phases_to_run = {2} /\ fs0.va.exists
  /\ \E i \in 1..Len(log) : log[i].op = "generate2"

\* C3: once the credentials are checked, a run whose requested phases need a
\* credential that is missing (Gemini for phase 1 or 2, OpenAI for phase 3)
\* has exited with code 1 naming a credential, having made no remote call,
\* created no cache directory, read no cache file and written nothing; and a
\* run whose requested phases have their credentials never fails on a
\* credential, whatever the other key is.
C3_CredentialsFirst ==
  pc # "start" =>
    LET needs_gemini == phases_to_run \cap {1, 2} # {}
        needs_openai == 3 \in phases_to_run
        lacking == \/ needs_gemini /\ gemini_key \in {"None", ""}
                   \/ needs_openai /\ openai_key \in {"None", ""}
    IN /\ lacking =>
            /\ pc = "exit" /\ exit_code = 1
            /\ err \in {"gemini_key", "openai_key"}
            /\ err = "gemini_key" => needs_gemini
            /\ err = "openai_key" => needs_openai
            /\ log = <<>>
            /\ fs = fs0
       /\ ~lacking => err \notin {"gemini_key", "openai_key"}

\* C3's case: a --phase 3 run without the OpenAI key has exited, although the
\* Gemini key is there.
C3_Witness ==
  /\ pc = "exit" /\ phases_to_run = {3} /\ err = "openai_key"
  /\ gemini_key = "k"

\* The promotion is over.
PromoteTerminated == m_pc \in {"exit", "done"}

\* C4: a promotion onto a destination that already exists never succeeds: it
\* ends with a non-zero exit code, and in every state of the run the
\* destination is as it was (no directory created, no file copied, no
\* metadata, no README).
C4_ExistingDestinationUntouched ==
  dest0.exists =>
    /\ dest = dest0
    /\ m_pc \notin {"copy_plan", "copy_artifacts", "readme", "done"}
    /\ copied_artifacts = <<>>
    /\ PromoteTerminated => m_exit = 1

\* C4's case: the promotion stopped at the destination check.
C4_Witness ==
  /\ m_pc = "exit" /\ m_err = "directory_already_exists" /\ dest0.exists

\* The user's cache directory holds the i-th artifact.
InSourceCache(i) == Exists(Resolve(args.cache) \o <<ArtifactNames[i]>>)

\* C5: after a successful promotion, for each of the two artifact names these
\* agree: the file is in the source cache, it is under <dest>/artifacts
\* (copied from the cache), its name is in the metadata's artifacts list, and
\* the README has its line; PRD.md, metadata.json and their README lines are
\* there in any case.
C5_ArtifactsAgree ==
  m_pc = "done" =>
    /\ \A i \in 1..2 :
         /\ InSourceCache(i) <=> dest.artifacts[i].exists
         /\ dest.artifacts[i].exists =>
              dest.artifacts[i].from = Resolve(args.cache) \o <<ArtifactNames[i]>>
         /\ InSourceCache(i) <=>
              (\E k \in 1..Len(dest.metadata.artifacts) :
                 dest.metadata.artifacts[k] = ArtifactNames[i])
         /\ InSourceCache(i) <=>
              (\E k \in 1..Len(dest.readme.lines) :
                 dest.readme.lines[k] = ReadmeArtifact(ArtifactNames[i]))
    /\ dest.exists /\ dest.artifacts_dir
    /\ dest.prd.exists /\ dest.metadata.exists /\ dest.readme.exists
    /\ \E k \in 1..Len(dest.readme.lines) : dest.readme.lines[k] = ReadmePrd
    /\ \E k \in 1..Len(dest.readme.lines) : dest.readme.lines[k] = ReadmeMetadata
    /\ Len(dest.metadata.artifacts) <= 2

\* C5's case: a promotion succeeded with visual_analysis.json in the cache
\* and synthesis.json not.
C5_Witness ==
  /\ m_pc = "done" /\ InSourceCache(1) /\ ~InSourceCache(2)
  /\ dest.artifacts[1].exists

\* C9 as stated: after a successful promotion the metadata's source_plan and
\* source_cache are the resolved paths of the plan and of the cache directory
\* the user supplied, also when that directory does not exist.
C9_MetadataSourcePaths ==
  m_pc = "done" =>
    /\ dest.metadata.source_plan = Resolve(args.plan)
    /\ dest.metadata.source_cache = Resolve(args.cache)

\* The document each of the provider's JSON responses holds, written down
\* beside the responses (None for a response that holds none).
ExpectedDocument(resp) ==
  CASE resp = FENCE \o <<"j", NL, "{", "}">> \o FENCE -> DocEmpty
    [] resp = <<"{", QUOTE, "a", QUOTE, ":", "1", "}">> -> DocA
    [] resp = <<"[", "]">> -> DocList
    [] OTHER -> None
\* The pretty-printed text of each document, written down.
ExpectedFileText(doc) ==
  CASE doc = DocEmpty -> <<"{", "}">>
    [] doc = DocA -> <<"{", NL, " ", " ", QUOTE, "a", QUOTE, ":", " ", "1", NL, "}">>
    [] doc = DocList -> <<"[", "]">>
    [] OTHER -> <<"n", "u", "l", "l">>
\* The positions of an operation in the log.
Requested(op) == {i \in 1..Len(log) : log[i].op = op}

\* C6: when a run of all three phases completes, the generation requests
\* were made in the order 1, 2, 3, once each; the phase-2 request embeds the
\* document of phase 1's response and the phase-3 request the document of
\* phase 2's response; visual_analysis.json and synthesis.json hold those
\* documents; and the output file is the phase-3 response, character for
\* character (fences and whitespace included).
C6_EndToEnd ==
  (pc = "done" /\ phases_to_run = {1, 2, 3}) =>
    /\ \A k \in 1..3 : ExpectedDocument(response[k]) # None \/ k = 3
    /\ \E i, j, k \in 1..Len(log) :
         /\ i < j /\ j < k
         /\ Requested("generate1") = {i}
         /\ Requested("generate2") = {j}
         /\ Requested("generate3") = {k}
         /\ log[j].arg = ExpectedFileText(ExpectedDocument(response[1]))
         /\ log[k].arg = ExpectedFileText(ExpectedDocument(response[2]))
    /\ visual_analysis = ExpectedDocument(response[1])
    /\ synthesis = ExpectedDocument(response[2])
    /\ fs.va = File(ExpectedFileText(ExpectedDocument(response[1])))
    /\ fs.syn = File(ExpectedFileText(ExpectedDocument(response[2])))
    /\ fs.out = File(response[3])

\* C6's case: a full run completed whose phase-1 response was fence-wrapped
\* and whose phase-3 response, itself fenced Markdown, came in two or more
\* fragments.
C6_Witness ==
  /\ pc = "done" /\ phases_to_run = {1, 2, 3}
  /\ frags >= 2
  /\ StartsWith(response[1], FENCE)
  /\ StartsWith(response[3], FENCE)
  /\ fs.out.text = response[3]
  /\ \E i \in 1..Len(log) : log[i].op = "write_out"

\* C7 as stated: no remote call, the file-state query included, is attempted
\* more than once in one invocation.
C7_EveryCallOnce ==
  \A op \in RemoteOps : Count(op) <= 1

\* The remote call before position i of the log, 0 when there is none.
PreviousRemote(i) ==
  IF \E j \in 1..(i - 1) : log[j].op \in RemoteOps
  THEN SetMax({j \in 1..(i - 1) : log[j].op \in RemoteOps})
  ELSE 0

\* C7, amended: the upload, each phase's generation request and the delete
\* are attempted at most once per invocation, and exactly once in a completed
\* run of their phase; the file-state query is repeated, once for each time
\* the file was last seen PROCESSING (so not at all when the upload returns
\* it ready, and several times while it stays PROCESSING); a call that raised
\* is never attempted again: but for the swallowed delete, it is the run's
\* last remote call.
C7_NoRetry ==
  /\ \A op \in RemoteOps \ {"get"} : Count(op) <= 1
  /\ \A i \in 1..Len(log) : log[i].op = "get" =>
       /\ PreviousRemote(i) # 0
       /\ log[PreviousRemote(i)].op \in {"upload", "get"}
       /\ log[PreviousRemote(i)].res = "PROCESSING"
  /\ Count("get") = Cardinality({i \in 1..Len(log) :
                        /\ log[i].op \in {"upload", "get"}
                        /\ log[i].res = "PROCESSING"})
                    - (IF pc = "p1_poll" /\ video_state = "PROCESSING" THEN 1 ELSE 0)
  /\ \A i \in RemoteCalls :
       (log[i].res = "raise" /\ log[i].op # "delete") =>
         /\ i = SetMax(RemoteCalls)
         /\ pc = "exit"
  /\ pc = "done" =>
       /\ 1 \in phases_to_run => Count("upload") = 1 /\ Count("generate1") = 1
                                 /\ Count("delete") = 1
       /\ 2 \in phases_to_run => Count("generate2") = 1
       /\ 3 \in phases_to_run => Count("generate3") = 1

\* C7's case: the file stayed PROCESSING, so its state was queried twice.
C7_Witness == Count("get") >= 2 /\ Count("upload") = 1

\* C10: a requested phase 1 or 2 is never passed over, whatever its cache
\* file holds: the driver never consults the cache file of a requested phase;
\* once it is past a requested phase, that phase's generation request has
\* been made and its cache file has been written; and from that write on the
\* cache file holds the document of the phase's new response.
C10_RequestedPhaseRuns ==
  /\ 1 \in phases_to_run =>
       /\ \A i \in 1..Len(log) : log[i].op \notin {"exists_va", "read_va"}
       /\ pc \in {"p1_delete", "phase2", "p2_request", "p2_stream", "phase3",
                  "p3_request", "p3_stream", "done"} =>
            Count("generate1") = 1 /\ Requested("write_va") # {}
       /\ Requested("write_va") # {} =>
            /\ Count("generate1") = 1
            /\ ExpectedDocument(response[1]) # None
            /\ fs.va = File(ExpectedFileText(ExpectedDocument(response[1])))
  /\ 2 \in phases_to_run =>
       /\ \A i \in 1..Len(log) : log[i].op \notin {"exists_syn", "read_syn"}
       /\ pc \in {"phase3", "p3_request", "p3_stream", "done"} =>
            Count("generate2") = 1 /\ Requested("write_syn") # {}
       /\ Requested("write_syn") # {} =>
            /\ Count("generate2") = 1
            /\ ExpectedDocument(response[2]) # None
            /\ fs.syn = File(ExpectedFileText(ExpectedDocument(response[2])))

\* C10's case: phase 1 was requested with visual_analysis.json already in the
\* cache, and the driver is past it with another document in the file.
C10_Witness ==
  /\ phases_to_run = {1} /\ pc = "done"
  /\ fs0.va.exists /\ fs.va.exists /\ fs.va # fs0.va
  /\ Count("generate1") = 1

\* C8 as stated, in the part the code contradicts: _strip_fences yields a
\* result for every text, and a trailing fence is removed also from a text
\* that has no leading fence.
C8_TotalAndIndependent ==
  sf_pc = "once" =>
    /\ sf_once.err = "none"
    /\ (~StartsWith(Strip(sf_text), FENCE) /\ EndsWith(Strip(sf_text), FENCE)) =>
         ~EndsWith(sf_once.val, FENCE)

\* The positions before position i of the log at which the file's state was
\* observed: the upload's answer and each query's.
Observations(i) == {j \in 1..(i - 1) : log[j].op \in {"upload", "get"}}

\* C11: the phase-1 generation request is submitted only when the file's
\* state, as last observed, is neither PROCESSING nor FAILED; an observation
\* of PROCESSING is followed by nothing but another query of the state; and
\* an observation of FAILED, from the upload or from a query, is the last
\* thing the run does: it ends with the video-processing error and exit code
\* 1, no generation request was sent, and no cache or output file was written.
C11_RequestAfterReady ==
  /\ \A i \in Requested("generate1") :
       /\ Observations(i) # {}
       /\ log[SetMax(Observations(i))].res \notin {"PROCESSING", "FAILED", "raise"}
  /\ \A i \in 1..Len(log) :
       (log[i].op \in {"upload", "get"} /\ log[i].res = "PROCESSING") =>
         IF i = Len(log)
         THEN pc = "p1_poll" /\ video_state = "PROCESSING" /\ exit_code = -1
         ELSE log[i + 1].op = "get"
  /\ \A i \in 1..Len(log) :
       (log[i].op \in {"upload", "get"} /\ log[i].res = "FAILED") =>
         /\ i = Len(log)
         /\ Requested("generate1") = {}
         /\ FileWrites = {}
         /\ fs.va = fs0.va /\ fs.syn = fs0.syn /\ fs.out = fs0.out
         /\ \/ pc = "p1_poll" /\ video_state = "FAILED" /\ exit_code = -1
            \/ /\ pc = "exit" /\ exit_code = 1
               /\ err = "RuntimeError_video_processing_failed"

\* C11's case: the file was PROCESSING after the upload, a query of its
\* state found it FAILED, and the run has ended with the fatal error.
C11_Witness ==
  /\ pc = "exit" /\ err = "RuntimeError_video_processing_failed"
  /\ Count("get") >= 1
  /\ log[Len(log)].op = "get" /\ log[Len(log)].res = "FAILED"

\* The log's last entry is of operation op.
LastOp(op) == Len(log) > 0 /\ log[Len(log)].op = op
\* What a streamed text that holds no JSON document raises: json.loads its
\* decode error, and _strip_fences its IndexError on a fence with no line
\* after it.
ParseErrors == {"JSONDecodeError", "IndexError"}
\* Phase 1 has failed fatally: the video was seen FAILED, or the text
\* streamed for its request was not valid JSON.
Phase1Failed ==
  \/ err = "RuntimeError_video_processing_failed"
  \/ err \in ParseErrors /\ LastOp("generate1")
\* Phase 2 has failed fatally: the text streamed for its request was not
\* valid JSON.
Phase2Failed == err \in ParseErrors /\ LastOp("generate2")

\* C12: when phase 1 or phase 2 fails fatally (video FAILED, or streamed
\* text that is not valid JSON after fence-stripping), the run is over with
\* exit code 1 and nothing more ever happens in it; the failing phase's cache
\* file is as it was when the run began; no later phase was started (no
\* later generation request, no look at a later cache file), and no later
\* cache file and no output document was written; and after a phase-2
\* failure, the visual_analysis.json that phase 1 of this run wrote is still
\* on disk with the document of phase 1's response.
C12_FatalFailureAborts ==
  /\ [](Phase1Failed =>
         /\ pc = "exit" /\ exit_code = 1
         /\ fs.va = fs0.va /\ fs.syn = fs0.syn /\ fs.out = fs0.out
         /\ FileWrites = {}
         /\ \A i \in 1..Len(log) :
              log[i].op \notin {"generate2", "generate3", "exists_syn", "read_syn"})
  /\ [](Phase2Failed =>
         /\ pc = "exit" /\ exit_code = 1
         /\ fs.syn = fs0.syn /\ fs.out = fs0.out
         /\ \A i \in 1..Len(log) :
              log[i].op \notin {"generate3", "write_syn", "write_out"}
         /\ IF 1 \in phases_to_run
            THEN /\ Requested("write_va") # {}
                 /\ fs.va = File(ExpectedFileText(ExpectedDocument(response[1])))
            ELSE fs.va = fs0.va)
  /\ [][(Phase1Failed \/ Phase2Failed) => UNCHANGED pvars]_vars

\* C12's case: phases 1 and 2 were run with both cache files on disk; phase
\* 1 replaced visual_analysis.json, and phase 2's streamed text was no JSON.
C12_Witness ==
  /\ Phase2Failed /\ pc = "exit"
  /\ 1 \in phases_to_run
  /\ fs0.va.exists /\ fs.va # fs0.va
  /\ fs0.syn.exists /\ fs.syn = fs0.syn

\* The upload of this run succeeded: it returned the file.
Uploaded == \E i \in Requested("upload") : log[i].res # "raise"
\* The run ended inside phase 1: the last thing it did was one of phase 1's
\* remote calls or its cache write.
FailedInPhase1 ==
  /\ pc = "exit"
  /\ \E op \in {"upload", "get", "generate1", "write_va"} : LastOp(op)

\* C13: every attempt to delete the uploaded file comes after the write of
\* visual_analysis.json, and the file then holds the document of phase 1's
\* response; a run that ends inside phase 1 after its upload succeeded (file
\* FAILED, streaming error, text that is no JSON, or any other failure)
\* has attempted no delete, and the uploaded file is still on the service;
\* and the delete, whether it succeeds or raises, leaves the cache and the
\* phase's result as they were and hands over to the rest of the run with no
\* error recorded.
C13_DeleteAfterCacheWrite ==
  /\ [](\A i \in Requested("delete") :
          /\ \E j \in 1..(i - 1) : log[j].op = "write_va"
          /\ fs.va = File(ExpectedFileText(ExpectedDocument(response[1]))))
  /\ []((FailedInPhase1 /\ Uploaded) =>
          /\ Requested("delete") = {}
          /\ remote_file)
  /\ [](LastOp("delete") =>
          /\ pc \in {"phase2", "p2_request"}
          /\ exit_code = -1 /\ err = ""
          /\ visual_analysis = ExpectedDocument(response[1])
          /\ remote_file = (log[Len(log)].res = "raise"))
  /\ [][pc = "p1_delete" =>
          /\ pc' = "phase2"
          /\ fs' = fs
          /\ visual_analysis' = visual_analysis
          /\ exit_code' = exit_code /\ err' = err]_vars

\* C13's case: the delete was attempted and raised; the cache file written
\* before it is on disk and the run goes on to what follows phase 1.
C13_Witness ==
  /\ LastOp("delete") /\ log[Len(log)].res = "raise"
  /\ pc = "phase2"
  /\ Requested("write_va") # {}
  /\ fs.va.exists /\ fs.va # fs0.va
  /\ remote_file

====
